---- MODULE Spec2Model ----
(***************************************************************************)
(* Predictive warming / warm-slot lifecycle of Polaris Computer            *)
(* (warming.py, the cancel route of app_server.py, the sessions of         *)
(* database.py).                                                           *)
(*                                                                         *)
(* The store is a PostgreSQL table read and written through SQLAlchemy     *)
(* sessions (READ COMMITTED): a SELECT sees the rows committed so far, an  *)
(* ORM attribute assignment becomes `UPDATE warm_slots SET <the changed    *)
(* columns> WHERE id = ?` at flush, and the update is visible to the other *)
(* sessions at commit.  Every handler is a coroutine: it is cut into one   *)
(* action per awaited store statement.  An action is the store's           *)
(* processing of that statement followed by the handler's local code up to *)
(* the next await (where the clock is read and the next write prepared).   *)
(* Writes are blind per-column writes by primary key, applied at the       *)
(* commit step.                                                            *)
(***************************************************************************)
EXTENDS Integers, Sequences, FiniteSets, TLC

\* ------------------------------------------------------------- constants
WARM_SLOT_TTL_SECONDS == 180
MAX_WARM_SLOTS_PER_USER == 2
WarmPort == 8080

\* ---------------------------------------------------------------- bounds
\* The clock advances MaxTicks times, one TTL at a time (a slot created at 0
\* is live at 0, on its boundary at 180 and overdue at 360).
MaxTicks == 2
\* Rows the warm_slots table may hold under Spec.
MaxRows == 1
\* Under the race specifications: concurrent calls of one operation, and rows.
RaceCalls == 2
RaceRows == 2
\* Under SpecCap: concurrent triggers of one user, one per template.
CapCalls == 4
\* Under SpecSeq: rows.
SeqRows == 3
\* Under SpecFail: release calls for a slot after which a pass's commit no longer fails.
MaxReleases == 2
MaxOrphans == 1

TickSeconds == WARM_SLOT_TTL_SECONDS
MaxTime == MaxTicks * TickSeconds

\* Call places of the handlers.  Under Spec the calls of one operation run
\* one at a time.
SeqCalls == {1}
TrigPool == 1..CapCalls
ClaimPool == 1..RaceCalls

Users == {"alice", "bob"}

\* A nullable column: NULL, or Some(v).
NULL == <<>>
Some(v) == <<v>>

\* WarmSlotStatus
PREPARING == "preparing"
READY == "ready"
CLAIMED == "claimed"
EXPIRED == "expired"
ActiveStatuses == {PREPARING, READY}

VARIABLES
    clock,      \* datetime.utcnow(), in seconds
    slots,      \* the warm_slots table: row id -> row (ids are 1..Len(slots))
    warm,       \* per row: position of its _warm_container task
    trig,       \* in-flight trigger_warming calls
    claim,      \* in-flight claim_warm_slot calls
    cancel,     \* the in-flight cancel_warm_slot call
    mgr,        \* the WarmingManager: _active, the cleanup loop and its pass
    hist,       \* per row: the calls of _release_warm_slot_resources for it (and those that went on to the
                \* provider), the claim calls that returned it, the cancel calls that succeeded on it
    ret         \* the value the step just taken returned to its caller, if any

vars == <<clock, slots, warm, trig, claim, cancel, mgr, hist, ret>>

Ids == 1..Len(slots)

\* Rows a SELECT of another session can see: committed ones.
Visible == {s \in Ids : slots[s].committed}

NoRet == [op |-> "none"]

IdleTrig == [pc |-> "idle", user_id |-> "", template_id |-> "", slot |-> 0, expires_at |-> 0]
IdleClaim == [pc |-> "idle", user_id |-> "", template_id |-> "", slot |-> 0, claimed_at |-> 0]
IdleCancel == [pc |-> "idle", user_id |-> "", slot |-> 0]

Init ==
    /\ clock = 0
    /\ slots = <<>>
    /\ warm = <<>>
    /\ trig = [c \in TrigPool |-> IdleTrig]
    /\ claim = [k \in ClaimPool |-> IdleClaim]
    /\ cancel = IdleCancel
    /\ mgr = [active |-> FALSE, task |-> "none", expired_slots |-> {}, orphans |-> <<>>]
    /\ hist = <<>>
    /\ ret = NoRet

\* Call places are interchangeable: a new call takes the lowest free one.
Lowest(pool, c) == \A d \in DOMAIN pool : d < c => pool[d].pc # "idle"

\* --------------------------------------------------------------- the clock
Tick ==
    /\ clock < MaxTime
    /\ clock' = clock + TickSeconds
    /\ ret' = NoRet
    /\ UNCHANGED <<slots, warm, trig, claim, cancel, mgr, hist>>

\* ------------------------------------------------------- trigger_warming
\* ActiveForPair with the slots past their expires_at left out.
ActiveForPair_Unexpired(u, t) ==
    {s \in Visible : /\ slots[s].user_id = u
                     /\ slots[s].template_id = t
                     /\ slots[s].status \in ActiveStatuses
                     /\ slots[s].expires_at >= clock}

\* select ... where user_id, template_id, status in (PREPARING, READY)
ActiveForPair(u, t) ==
    {s \in Visible : /\ slots[s].user_id = u
                     /\ slots[s].template_id = t
                     /\ slots[s].status \in ActiveStatuses}

\* ActiveForUser with the status filter left out: every row of the user.
ActiveForUser_AllStatuses(u) ==
    {s \in Visible : slots[s].user_id = u}

\* ActiveForUser with the user filter left out: the active rows of everyone.
ActiveForUser_AnyUser(u) ==
    {s \in Visible : slots[s].status \in ActiveStatuses}

\* select ... where user_id, status in (PREPARING, READY)
ActiveForUser(u) ==
    {s \in Visible : slots[s].user_id = u /\ slots[s].status \in ActiveStatuses}

\* TriggerSelect with the cap looked at before the existing slot: a user at
\* the cap goes to the count whatever the pair has.
TriggerSelect_CapFirst(c, u, t) ==
    /\ trig[c].pc = "idle"
    /\ LET existing == ActiveForPair(u, t) IN
       IF existing # {} /\ Cardinality(ActiveForUser(u)) < MAX_WARM_SLOTS_PER_USER
       THEN /\ trig' = [trig EXCEPT ![c] =
                  [pc |-> "extend", user_id |-> u, template_id |-> t,
                   slot |-> CHOOSE s \in existing : TRUE,
                   expires_at |-> clock + WARM_SLOT_TTL_SECONDS]]
            /\ ret' = NoRet
       ELSE /\ trig' = [trig EXCEPT ![c] =
                  [pc |-> "count", user_id |-> u, template_id |-> t,
                   slot |-> 0, expires_at |-> 0]]
            /\ ret' = NoRet
    /\ UNCHANGED <<clock, slots, warm, claim, cancel, mgr, hist>>

\* The first select; scalar_one_or_none raises MultipleResultsFound on two
\* rows.  With one row the new expires_at is computed right away.
TriggerSelect(c, u, t) ==
    /\ trig[c].pc = "idle"
    /\ LET existing == ActiveForPair(u, t) IN
       IF Cardinality(existing) > 1
       THEN /\ ret' = [op |-> "trigger_raised", raised |-> "MultipleResultsFound"]
            /\ UNCHANGED trig
       ELSE IF existing # {}
       THEN /\ trig' = [trig EXCEPT ![c] =
                  [pc |-> "extend", user_id |-> u, template_id |-> t,
                   slot |-> CHOOSE s \in existing : TRUE,
                   expires_at |-> clock + WARM_SLOT_TTL_SECONDS]]
            /\ ret' = NoRet
       ELSE /\ trig' = [trig EXCEPT ![c] =
                  [pc |-> "count", user_id |-> u, template_id |-> t,
                   slot |-> 0, expires_at |-> 0]]
            /\ ret' = NoRet
    /\ UNCHANGED <<clock, slots, warm, claim, cancel, mgr, hist>>

\* TriggerExtendCommit writing the status it had loaded along with expires_at.
TriggerExtendCommit_ResetStatus(c) ==
    /\ trig[c].pc = "extend"
    /\ slots' = [slots EXCEPT ![trig[c].slot].expires_at = trig[c].expires_at,
                              ![trig[c].slot].status = PREPARING]
    /\ trig' = [trig EXCEPT ![c] = IdleTrig]
    /\ ret' = [op |-> "trigger", extended |-> TRUE, slot_id |-> trig[c].slot,
               expires_at |-> trig[c].expires_at]
    /\ UNCHANGED <<clock, warm, claim, cancel, mgr, hist>>

\* The commit of the extension: UPDATE warm_slots SET expires_at WHERE id.
TriggerExtendCommit(c) ==
    /\ trig[c].pc = "extend"
    /\ slots' = [slots EXCEPT ![trig[c].slot].expires_at = trig[c].expires_at]
    /\ trig' = [trig EXCEPT ![c] = IdleTrig]
    /\ ret' = [op |-> "trigger", extended |-> TRUE, slot_id |-> trig[c].slot,
               expires_at |-> trig[c].expires_at]
    /\ UNCHANGED <<clock, warm, claim, cancel, mgr, hist>>

\* The count of the user's active slots, the cap, and the new expires_at.
\* TriggerCount with the cap compared by > instead of >=.
TriggerCount_OverCap(c) ==
    /\ trig[c].pc = "count"
    /\ LET active_count == Cardinality(ActiveForUser(trig[c].user_id)) IN
       IF active_count > MAX_WARM_SLOTS_PER_USER
       THEN /\ trig' = [trig EXCEPT ![c] = IdleTrig]
            /\ ret' = [op |-> "trigger", error |-> "Max warm slots reached",
                       max_slots |-> MAX_WARM_SLOTS_PER_USER]
       ELSE /\ trig' = [trig EXCEPT ![c].pc = "insert",
                                    ![c].expires_at = clock + WARM_SLOT_TTL_SECONDS]
            /\ ret' = NoRet
    /\ UNCHANGED <<clock, slots, warm, claim, cancel, mgr, hist>>

\* The count of the user's active slots and the cap.
TriggerCount(c) ==
    /\ trig[c].pc = "count"
    /\ LET active_count == Cardinality(ActiveForUser(trig[c].user_id)) IN
       IF active_count >= MAX_WARM_SLOTS_PER_USER
       THEN /\ trig' = [trig EXCEPT ![c] = IdleTrig]
            /\ ret' = [op |-> "trigger", error |-> "Max warm slots reached",
                       max_slots |-> MAX_WARM_SLOTS_PER_USER]
       ELSE /\ trig' = [trig EXCEPT ![c].pc = "insert",
                                    ![c].expires_at = clock + WARM_SLOT_TTL_SECONDS]
            /\ ret' = NoRet
    /\ UNCHANGED <<clock, slots, warm, claim, cancel, mgr, hist>>

\* NewSlot with a provider instance recorded at creation.
NewSlot_WithInstance(u, t, e) ==
    [user_id |-> u, template_id |-> t, provider |-> "verda",
     provider_instance_id |-> Some("instance"), status |-> PREPARING,
     host |-> NULL, port |-> NULL, ready_at |-> NULL,
     expires_at |-> e, claimed_at |-> NULL, committed |-> FALSE]

\* WarmSlot(user_id, template_id, provider=VERDA, status=PREPARING, expires_at)
NewSlot(u, t, e) ==
    [user_id |-> u, template_id |-> t, provider |-> "verda",
     provider_instance_id |-> NULL, status |-> PREPARING,
     host |-> NULL, port |-> NULL, ready_at |-> NULL,
     expires_at |-> e, claimed_at |-> NULL, committed |-> FALSE]

NewHist == [released |-> 0, provider_calls |-> 0, claim_returns |-> 0, cancels |-> 0]

\* db.add + flush (the INSERT, not yet committed), then create_task.
TriggerFlush(c, maxRows) ==
    /\ trig[c].pc = "insert"
    /\ Len(slots) < maxRows
    /\ slots' = Append(slots, NewSlot(trig[c].user_id, trig[c].template_id, trig[c].expires_at))
    /\ warm' = Append(warm, [pc |-> "provisioning", ready_at |-> 0])
    /\ hist' = Append(hist, NewHist)
    /\ trig' = [trig EXCEPT ![c].pc = "commit", ![c].slot = Len(slots) + 1]
    /\ ret' = NoRet
    /\ UNCHANGED <<clock, claim, cancel, mgr>>

\* The commit of the insert; the call returns the preparing slot.
TriggerCommit(c) ==
    /\ trig[c].pc = "commit"
    /\ slots' = [slots EXCEPT ![trig[c].slot].committed = TRUE]
    /\ trig' = [trig EXCEPT ![c] = IdleTrig]
    /\ ret' = [op |-> "trigger", status |-> PREPARING, slot_id |-> trig[c].slot,
               expires_at |-> trig[c].expires_at]
    /\ UNCHANGED <<clock, warm, claim, cancel, mgr, hist>>

\* ------------------------------------------------------- _warm_container
\* A blind write of columns to row s (UPDATE ... WHERE id = s).
WriteRow(s, cols) ==
    [slots EXCEPT ![s] = [f \in DOMAIN slots[s] |->
                            IF f \in DOMAIN cols THEN cols[f] ELSE slots[s][f]]]

\* After the simulated provisioning: the re-fetch of the slot by id.  A
\* missing row or an expired one ends the task; otherwise the task prepares
\* status, ready_at, host and port and goes on to commit them.
WarmFetch(s) ==
    /\ warm[s].pc = "provisioning"
    /\ IF s \notin Visible \/ slots[s].status = EXPIRED
       THEN warm' = [warm EXCEPT ![s].pc = "done"]
       ELSE warm' = [warm EXCEPT ![s] = [pc |-> "commit", ready_at |-> clock]]
    /\ ret' = NoRet
    /\ UNCHANGED <<clock, slots, trig, claim, cancel, mgr, hist>>

\* WarmCommit with the connection info left out of the write.
WarmCommit_NoHost(s) ==
    /\ warm[s].pc = "commit"
    /\ slots' = WriteRow(s, [status |-> READY, ready_at |-> Some(warm[s].ready_at)])
    /\ warm' = [warm EXCEPT ![s].pc = "done"]
    /\ ret' = NoRet
    /\ UNCHANGED <<clock, trig, claim, cancel, mgr, hist>>

\* The commit of the ready slot.
WarmCommit(s) ==
    /\ warm[s].pc = "commit"
    /\ slots' = WriteRow(s, [status |-> READY, ready_at |-> Some(warm[s].ready_at),
                             host |-> Some("warm-token"), port |-> Some(WarmPort)])
    /\ warm' = [warm EXCEPT ![s].pc = "done"]
    /\ ret' = NoRet
    /\ UNCHANGED <<clock, trig, claim, cancel, mgr, hist>>

\* An exception inside the task's try block (the store or the provisioning
\* fails): control moves to the except branch.
WarmFail(s) ==
    /\ warm[s].pc = "provisioning"
    /\ warm' = [warm EXCEPT ![s].pc = "failed"]
    /\ ret' = NoRet
    /\ UNCHANGED <<clock, slots, trig, claim, cancel, mgr, hist>>

\* The except branch's select; a row that is found is set to expired (an
\* assignment of the value already loaded changes nothing and writes nothing).
WarmFailFetch(s) ==
    /\ warm[s].pc = "failed"
    /\ IF s \notin Visible \/ slots[s].status = EXPIRED
       THEN warm' = [warm EXCEPT ![s].pc = "done"]
       ELSE warm' = [warm EXCEPT ![s].pc = "fail_commit"]
    /\ ret' = NoRet
    /\ UNCHANGED <<clock, slots, trig, claim, cancel, mgr, hist>>

WarmFailCommit(s) ==
    /\ warm[s].pc = "fail_commit"
    /\ slots' = WriteRow(s, [status |-> EXPIRED])
    /\ warm' = [warm EXCEPT ![s].pc = "done"]
    /\ ret' = NoRet
    /\ UNCHANGED <<clock, trig, claim, cancel, mgr, hist>>

\* ------------------------------------------------- the manager's sweep loop
\* start(): _active = True and a new _cleanup_loop task.
Start ==
    /\ mgr.task = "none"
    /\ mgr' = [mgr EXCEPT !.active = TRUE, !.task = "sleep"]
    /\ ret' = NoRet
    /\ UNCHANGED <<clock, slots, warm, trig, claim, cancel, hist>>

\* stop(): _active = False and the loop task is cancelled: CancelledError is
\* raised at the await the task is suspended in (the sleep between passes,
\* or a pass's commit), passes get_db_context's and the loop's `except
\* Exception`, and ends the task; the session is closed without a commit.
Stop ==
    /\ mgr.task \in {"sleep", "commit", "caught"}
    /\ mgr' = [mgr EXCEPT !.active = FALSE, !.task = "cancelled", !.expired_slots = {}]
    /\ ret' = NoRet
    /\ UNCHANGED <<clock, slots, warm, trig, claim, cancel, hist>>

\* SweepFail with the exception leaving the loop: the task ends.
SweepFail_Uncaught ==
    /\ mgr.active
    /\ mgr.task \in {"sleep", "commit"}
    /\ \A s \in mgr.expired_slots : hist[s].released < MaxReleases
    /\ mgr' = [mgr EXCEPT !.task = "cancelled", !.expired_slots = {}]
    /\ ret' = NoRet
    /\ UNCHANGED <<clock, slots, warm, trig, claim, cancel, hist>>

\* A pass raises an Exception at its query (the store is down when the pass
\* begins) or at its commit: get_db_context rolls back and closes the
\* session, and the loop's `except Exception` catches and prints the error.
\* (A commit fails only while the slots of the pass have been released fewer
\* than MaxReleases times, which keeps the count of release calls finite.)
SweepFail ==
    /\ mgr.active
    /\ mgr.task \in {"sleep", "commit"}
    /\ \A s \in mgr.expired_slots : hist[s].released < MaxReleases
    /\ mgr' = [mgr EXCEPT !.task = "caught", !.expired_slots = {}]
    /\ ret' = NoRet
    /\ UNCHANGED <<clock, slots, warm, trig, claim, cancel, hist>>

\* After the handler the loop goes on to its sleep, from which the next
\* pass starts while _active is set.
SweepResume ==
    /\ mgr.task = "caught"
    /\ mgr' = [mgr EXCEPT !.task = "sleep"]
    /\ ret' = NoRet
    /\ UNCHANGED <<clock, slots, warm, trig, claim, cancel, hist>>

\* ExpiredAt with preparing slots left out of the selection.
ExpiredAt_ReadyOnly(now) ==
    {s \in Visible : slots[s].status = READY /\ slots[s].expires_at < now}

\* ExpiredAt with the expiry boundary included (expires_at <= now).
ExpiredAt_AtBoundary(now) ==
    {s \in Visible : slots[s].status \in ActiveStatuses /\ slots[s].expires_at <= now}

\* select ... where status in (PREPARING, READY) and expires_at < now
ExpiredAt(now) ==
    {s \in Visible : slots[s].status \in ActiveStatuses /\ slots[s].expires_at < now}

\* _release_warm_slot_resources is called for the slot: it returns at once
\* when provider_instance_id is not set, and goes on to the provider's
\* delete otherwise (whose failure is caught and printed).
Release(h, sel) ==
    [s \in DOMAIN h |->
        IF s \in sel
        THEN [h[s] EXCEPT !.released = @ + 1,
                          !.provider_calls =
                              IF slots[s].provider_instance_id = NULL THEN @ ELSE @ + 1]
        ELSE h[s]]

\* One pass of _cleanup_expired_slots: the query, then for every selected
\* slot the release call and the assignment of EXPIRED; a pass that selected
\* nothing is over, another goes on to its commit.
SweepQuery ==
    /\ mgr.active
    /\ mgr.task = "sleep"
    /\ LET expired_slots == ExpiredAt(clock) IN
       /\ hist' = Release(hist, expired_slots)
       /\ mgr' = [mgr EXCEPT !.task = IF expired_slots = {} THEN "sleep" ELSE "commit",
                             !.expired_slots = expired_slots]
    /\ ret' = NoRet
    /\ UNCHANGED <<clock, slots, warm, trig, claim, cancel>>

\* The pass's commit: UPDATE ... SET status = 'expired' for every selected row.
SweepCommit ==
    /\ mgr.task = "commit"
    /\ slots' = [s \in DOMAIN slots |->
                   IF s \in mgr.expired_slots THEN [slots[s] EXCEPT !.status = EXPIRED]
                   ELSE slots[s]]
    /\ mgr' = [mgr EXCEPT !.task = "sleep", !.expired_slots = {}]
    /\ ret' = NoRet
    /\ UNCHANGED <<clock, warm, trig, claim, cancel, hist>>

\* start() on a manager whose _cleanup_task is already set: _active = True
\* and _cleanup_task is overwritten with a new loop task.  A loop task that
\* was still running is no longer referenced by the manager (stop() cannot
\* cancel it) and goes on as before: it is kept in mgr.orphans.
StartAgain ==
    /\ mgr.task # "none"
    /\ Len(mgr.orphans) < MaxOrphans
    /\ \A s \in Ids : hist[s].released < MaxReleases
    /\ mgr' = [mgr EXCEPT
                 !.active = TRUE,
                 !.task = "sleep",
                 !.expired_slots = {},
                 !.orphans = IF mgr.task \in {"sleep", "commit"}
                             THEN Append(@, [task |-> mgr.task,
                                             expired_slots |-> mgr.expired_slots])
                             ELSE @]
    /\ ret' = NoRet
    /\ UNCHANGED <<clock, slots, warm, trig, claim, cancel, hist>>

\* A pass of a loop task that the manager no longer references: the query
\* and the release calls, as in SweepQuery.
OrphanQuery(i) ==
    /\ i \in DOMAIN mgr.orphans
    /\ mgr.active
    /\ mgr.orphans[i].task = "sleep"
    /\ LET expired_slots == ExpiredAt(clock) IN
       /\ hist' = Release(hist, expired_slots)
       /\ mgr' = [mgr EXCEPT !.orphans[i] =
                     [task |-> IF expired_slots = {} THEN "sleep" ELSE "commit",
                      expired_slots |-> expired_slots]]
    /\ ret' = NoRet
    /\ UNCHANGED <<clock, slots, warm, trig, claim, cancel>>

\* The commit of such a pass, as in SweepCommit; _active is not looked at
\* before the pass is over.
OrphanCommit(i) ==
    /\ i \in DOMAIN mgr.orphans
    /\ mgr.orphans[i].task = "commit"
    /\ slots' = [s \in DOMAIN slots |->
                   IF s \in mgr.orphans[i].expired_slots
                   THEN [slots[s] EXCEPT !.status = EXPIRED]
                   ELSE slots[s]]
    /\ mgr' = [mgr EXCEPT !.orphans[i] = [task |-> "sleep", expired_slots |-> {}]]
    /\ ret' = NoRet
    /\ UNCHANGED <<clock, warm, trig, claim, cancel, hist>>

\* The sleep of such a loop is over while _active is False: `while
\* self._active` ends the task.
OrphanExit(i) ==
    /\ i \in DOMAIN mgr.orphans
    /\ ~mgr.active
    /\ mgr.orphans[i].task = "sleep"
    /\ mgr' = [mgr EXCEPT !.orphans[i].task = "done"]
    /\ ret' = NoRet
    /\ UNCHANGED <<clock, slots, warm, trig, claim, cancel, hist>>

\* -------------------------------------------------------- claim_warm_slot
\* Claimable with the expiry boundary included (expires_at >= now).
Claimable_AtBoundary(u, t, now) ==
    {s \in Visible : /\ slots[s].user_id = u
                     /\ slots[s].template_id = t
                     /\ slots[s].status = READY
                     /\ slots[s].expires_at >= now}

\* Claimable with preparing slots selected as well.
Claimable_AnyActive(u, t, now) ==
    {s \in Visible : /\ slots[s].user_id = u
                     /\ slots[s].template_id = t
                     /\ slots[s].status \in ActiveStatuses
                     /\ slots[s].expires_at > now}

\* select ... where user_id, template_id, status = READY, expires_at > now
Claimable(u, t, now) ==
    {s \in Visible : /\ slots[s].user_id = u
                     /\ slots[s].template_id = t
                     /\ slots[s].status = READY
                     /\ slots[s].expires_at > now}

\* The select; no row returns None at once, two rows raise, one row is set
\* to CLAIMED with claimed_at and goes on to the flush.
ClaimSelect(k, u, t) ==
    /\ claim[k].pc = "idle"
    /\ LET found == Claimable(u, t, clock) IN
       IF Cardinality(found) > 1
       THEN /\ ret' = [op |-> "claim_raised", raised |-> "MultipleResultsFound"]
            /\ UNCHANGED claim
       ELSE IF found = {}
       THEN /\ ret' = [op |-> "claim", user_id |-> u, template_id |-> t, slot |-> NULL]
            /\ UNCHANGED claim
       ELSE /\ claim' = [claim EXCEPT ![k] =
                  [pc |-> "flush", user_id |-> u, template_id |-> t,
                   slot |-> CHOOSE s \in found : TRUE, claimed_at |-> clock]]
            /\ ret' = NoRet
    /\ UNCHANGED <<clock, slots, warm, trig, cancel, mgr, hist>>

\* The flush (UPDATE ... SET status = 'claimed', claimed_at WHERE id), made
\* durable by the request session's commit; the slot is returned.
ClaimFlush(k) ==
    /\ claim[k].pc = "flush"
    /\ slots' = WriteRow(claim[k].slot, [status |-> CLAIMED,
                                          claimed_at |-> Some(claim[k].claimed_at)])
    /\ hist' = [hist EXCEPT ![claim[k].slot].claim_returns = @ + 1]
    /\ claim' = [claim EXCEPT ![k] = IdleClaim]
    /\ ret' = [op |-> "claim", user_id |-> claim[k].user_id,
               template_id |-> claim[k].template_id, slot |-> Some(claim[k].slot)]
    /\ UNCHANGED <<clock, warm, trig, cancel, mgr>>

\* CancelSelect with the slot looked up by id alone, whoever asks.
CancelSelect_AnyUser(u, s) ==
    /\ cancel.pc = "idle"
    /\ IF s \notin Visible
       THEN /\ ret' = [op |-> "cancel_raised", user_id |-> u, slot_id |-> s,
                       raised |-> "Warm slot not found"]
            /\ UNCHANGED cancel
       ELSE IF slots[s].status \in {CLAIMED, EXPIRED}
       THEN /\ ret' = [op |-> "cancel", user_id |-> u, slot_id |-> s, success |-> FALSE]
            /\ UNCHANGED cancel
       ELSE /\ cancel' = [pc |-> "commit", user_id |-> u, slot |-> s]
            /\ ret' = NoRet
    /\ UNCHANGED <<clock, slots, warm, trig, claim, mgr, hist>>

\* ------------------------------------------------------- cancel_warm_slot
\* select ... where id = slot_id and user_id = current_user.id; 404 when no
\* row, a failure result when the slot is claimed or expired, else EXPIRED
\* is assigned and the call goes on to its commit.
CancelSelect(u, s) ==
    /\ cancel.pc = "idle"
    /\ IF s \notin Visible \/ slots[s].user_id # u
       THEN /\ ret' = [op |-> "cancel_raised", user_id |-> u, slot_id |-> s,
                       raised |-> "Warm slot not found"]
            /\ UNCHANGED cancel
       ELSE IF slots[s].status \in {CLAIMED, EXPIRED}
       THEN /\ ret' = [op |-> "cancel", user_id |-> u, slot_id |-> s, success |-> FALSE]
            /\ UNCHANGED cancel
       ELSE /\ cancel' = [pc |-> "commit", user_id |-> u, slot |-> s]
            /\ ret' = NoRet
    /\ UNCHANGED <<clock, slots, warm, trig, claim, mgr, hist>>

CancelCommit ==
    /\ cancel.pc = "commit"
    /\ slots' = WriteRow(cancel.slot, [status |-> EXPIRED])
    /\ cancel' = IdleCancel
    /\ ret' = [op |-> "cancel", user_id |-> cancel.user_id, slot_id |-> cancel.slot,
               success |-> TRUE]
    /\ UNCHANGED <<clock, warm, trig, claim, mgr>>

\* The observer of cancel calls: what a successful cancel adds to hist.
CancelCounted == [hist EXCEPT ![cancel.slot].cancels = @ + 1]

\* ---------------------------------------------------- get_user_warm_slots
\* seconds_remaining without the floor at zero.
SecondsRemaining_Signed(expires_at, now) == expires_at - now

\* max(0, int((expires_at - utcnow()).total_seconds()))
SecondsRemaining(expires_at, now) ==
    IF expires_at - now > 0 THEN expires_at - now ELSE 0

\* The select of the user's slots in (PREPARING, READY) and the list built
\* from its rows; nothing is written.
GetUserWarmSlots(u) ==
    /\ ret' = [op |-> "get", user_id |-> u,
               slots |-> {[slot_id |-> s,
                           template_id |-> slots[s].template_id,
                           status |-> slots[s].status,
                           host |-> slots[s].host,
                           port |-> slots[s].port,
                           ready_at |-> slots[s].ready_at,
                           expires_at |-> slots[s].expires_at,
                           seconds_remaining |-> SecondsRemaining(slots[s].expires_at, clock)] :
                          s \in ActiveForUser(u)}]
    /\ UNCHANGED <<clock, slots, warm, trig, claim, cancel, mgr, hist>>

\* ------------------------------------------------------- specifications
\* Spec: every operation for one (user, template) pair, the calls of one
\* operation one at a time, interleaved with the warm tasks and the sweep.
PairUsers == {"alice"}
PairTemplates == {"ollama"}

Next ==
    \/ Tick
    \/ \E c \in SeqCalls, u \in PairUsers, t \in PairTemplates : TriggerSelect(c, u, t)
    \/ \E c \in SeqCalls : TriggerExtendCommit(c)
    \/ \E c \in SeqCalls : TriggerCount(c)
    \/ \E c \in SeqCalls : TriggerFlush(c, MaxRows)
    \/ \E c \in SeqCalls : TriggerCommit(c)
    \/ \E s \in Ids : WarmFetch(s)
    \/ \E s \in Ids : WarmCommit(s)
    \/ \E s \in Ids : WarmFail(s)
    \/ \E s \in Ids : WarmFailFetch(s)
    \/ \E s \in Ids : WarmFailCommit(s)
    \/ Start
    \/ SweepQuery
    \/ SweepCommit
    \/ \E k \in SeqCalls, u \in PairUsers, t \in PairTemplates : ClaimSelect(k, u, t)
    \/ \E k \in SeqCalls : ClaimFlush(k)
    \/ \E u \in PairUsers, s \in Ids : CancelSelect(u, s)
    \/ CancelCommit /\ UNCHANGED hist

Spec == Init /\ [][Next]_vars

\* SpecWarm: one slot, its warm task and the sweep (nothing else expires it).
NextWarm ==
    \/ Tick
    \/ \E c \in SeqCalls, u \in PairUsers, t \in PairTemplates : TriggerSelect(c, u, t)
    \/ \E c \in SeqCalls : TriggerExtendCommit(c)
    \/ \E c \in SeqCalls : TriggerCount(c)
    \/ \E c \in SeqCalls : TriggerFlush(c, MaxRows)
    \/ \E c \in SeqCalls : TriggerCommit(c)
    \/ \E s \in Ids : WarmFetch(s)
    \/ \E s \in Ids : WarmCommit(s)
    \/ Start
    \/ SweepQuery
    \/ SweepCommit

SpecWarm == Init /\ [][NextWarm]_vars

\* SpecGet: the listing of a user's slots, by the owner and by another user,
\* while the owner's slots are created, made ready, claimed, cancelled and
\* left to pass their expires_at.
NextGet ==
    \/ Tick
    \/ \E c \in SeqCalls, u \in PairUsers, t \in PairTemplates : TriggerSelect(c, u, t)
    \/ \E c \in SeqCalls : TriggerExtendCommit(c)
    \/ \E c \in SeqCalls : TriggerCount(c)
    \/ \E c \in SeqCalls : TriggerFlush(c, MaxRows)
    \/ \E c \in SeqCalls : TriggerCommit(c)
    \/ \E s \in Ids : WarmFetch(s)
    \/ \E s \in Ids : WarmCommit(s)
    \/ \E k \in SeqCalls, u \in PairUsers, t \in PairTemplates : ClaimSelect(k, u, t)
    \/ \E k \in SeqCalls : ClaimFlush(k)
    \/ \E u \in PairUsers, s \in Ids : CancelSelect(u, s)
    \/ CancelCommit /\ UNCHANGED hist
    \/ \E u \in Users : GetUserWarmSlots(u)

SpecGet == Init /\ [][NextGet]_vars

\* SpecFail: one slot and the sweep loop, whose passes can fail; the loop's
\* own continuation after a caught failure is run by the event loop.
NextFail ==
    \/ Tick
    \/ \E c \in SeqCalls, u \in PairUsers, t \in PairTemplates : TriggerSelect(c, u, t)
    \/ \E c \in SeqCalls : TriggerExtendCommit(c)
    \/ \E c \in SeqCalls : TriggerCount(c)
    \/ \E c \in SeqCalls : TriggerFlush(c, MaxRows)
    \/ \E c \in SeqCalls : TriggerCommit(c)
    \/ \E s \in Ids : WarmFetch(s)
    \/ \E s \in Ids : WarmCommit(s)
    \/ Start
    \/ SweepQuery
    \/ SweepCommit
    \/ SweepFail
    \/ SweepResume

SpecFail == Init /\ [][NextFail]_vars /\ WF_vars(SweepResume)

\* SpecLive: every operation on one pair but the failures, with the manager
\* started at application startup, the sweep loop run by the event loop, and
\* a trigger's commit completing.  Calls by users, the warm tasks and the
\* passing of time are not forced.
NextLive ==
    \/ Tick
    \/ \E c \in SeqCalls, u \in PairUsers, t \in PairTemplates : TriggerSelect(c, u, t)
    \/ \E c \in SeqCalls : TriggerExtendCommit(c)
    \/ \E c \in SeqCalls : TriggerCount(c)
    \/ \E c \in SeqCalls : TriggerFlush(c, MaxRows)
    \/ \E c \in SeqCalls : TriggerCommit(c)
    \/ \E s \in Ids : WarmFetch(s)
    \/ \E s \in Ids : WarmCommit(s)
    \/ Start
    \/ SweepQuery
    \/ SweepCommit
    \/ \E k \in SeqCalls, u \in PairUsers, t \in PairTemplates : ClaimSelect(k, u, t)
    \/ \E k \in SeqCalls : ClaimFlush(k)
    \/ \E u \in PairUsers, s \in Ids : CancelSelect(u, s)
    \/ CancelCommit /\ UNCHANGED hist

LiveFairness ==
    /\ WF_vars(Start)
    /\ WF_vars(SweepQuery)
    /\ WF_vars(SweepCommit)
    /\ \A c \in SeqCalls : WF_vars(TriggerCommit(c))

SpecLive == Init /\ [][NextLive]_vars /\ LiveFairness

\* SpecSweepLive: SpecLive without the cancels: only the sweep expires a slot.
NextSweepLive ==
    \/ Tick
    \/ \E c \in SeqCalls, u \in PairUsers, t \in PairTemplates : TriggerSelect(c, u, t)
    \/ \E c \in SeqCalls : TriggerExtendCommit(c)
    \/ \E c \in SeqCalls : TriggerCount(c)
    \/ \E c \in SeqCalls : TriggerFlush(c, MaxRows)
    \/ \E c \in SeqCalls : TriggerCommit(c)
    \/ \E s \in Ids : WarmFetch(s)
    \/ \E s \in Ids : WarmCommit(s)
    \/ Start
    \/ SweepQuery
    \/ SweepCommit
    \/ \E k \in SeqCalls, u \in PairUsers, t \in PairTemplates : ClaimSelect(k, u, t)
    \/ \E k \in SeqCalls : ClaimFlush(k)

SpecSweepLive == Init /\ [][NextSweepLive]_vars /\ LiveFairness

\* SpecStop: one slot, the sweep loop, and stop() and start() of the manager.
NextStop ==
    \/ Tick
    \/ \E c \in SeqCalls, u \in PairUsers, t \in PairTemplates : TriggerSelect(c, u, t)
    \/ \E c \in SeqCalls : TriggerExtendCommit(c)
    \/ \E c \in SeqCalls : TriggerCount(c)
    \/ \E c \in SeqCalls : TriggerFlush(c, MaxRows)
    \/ \E c \in SeqCalls : TriggerCommit(c)
    \/ \E s \in Ids : WarmFetch(s)
    \/ \E s \in Ids : WarmCommit(s)
    \/ Start
    \/ Stop
    \/ SweepQuery
    \/ SweepCommit

SpecStop == Init /\ [][NextStop]_vars

\* start() and stop() called in any order on the one manager.
NextStart ==
    \/ Tick
    \/ \E c \in SeqCalls, u \in PairUsers, t \in PairTemplates : TriggerSelect(c, u, t)
    \/ \E c \in SeqCalls : TriggerExtendCommit(c)
    \/ \E c \in SeqCalls : TriggerCount(c)
    \/ \E c \in SeqCalls : TriggerFlush(c, MaxRows)
    \/ \E c \in SeqCalls : TriggerCommit(c)
    \/ \E s \in Ids : WarmFetch(s)
    \/ \E s \in Ids : WarmCommit(s)
    \/ Start
    \/ StartAgain
    \/ Stop
    \/ SweepQuery
    \/ SweepCommit
    \/ \E i \in 1..MaxOrphans : OrphanQuery(i)
    \/ \E i \in 1..MaxOrphans : OrphanCommit(i)
    \/ \E i \in 1..MaxOrphans : OrphanExit(i)

SpecStart == Init /\ [][NextStart]_vars

\* SpecCancel: cancels by any user, with the triggers and claims of the
\* owner and the warm tasks.
NextCancel ==
    \/ \E c \in SeqCalls, u \in PairUsers, t \in PairTemplates : TriggerSelect(c, u, t)
    \/ \E c \in SeqCalls : TriggerExtendCommit(c)
    \/ \E c \in SeqCalls : TriggerCount(c)
    \/ \E c \in SeqCalls : TriggerFlush(c, RaceRows)
    \/ \E c \in SeqCalls : TriggerCommit(c)
    \/ \E s \in Ids : WarmFetch(s)
    \/ \E s \in Ids : WarmCommit(s)
    \/ \E k \in SeqCalls, u \in PairUsers, t \in PairTemplates : ClaimSelect(k, u, t)
    \/ \E k \in SeqCalls : ClaimFlush(k)
    \/ \E u \in Users, s \in Ids : CancelSelect(u, s)
    \/ CancelCommit /\ hist' = CancelCounted

SpecCancel == Init /\ [][NextCancel]_vars

\* SpecRace: concurrent triggers and concurrent claims for one pair, with
\* the warm tasks and the clock.
NextRace ==
    \/ Tick
    \/ \E c \in 1..RaceCalls, u \in PairUsers, t \in PairTemplates :
          Lowest(trig, c) /\ TriggerSelect(c, u, t)
    \/ \E c \in 1..RaceCalls : TriggerExtendCommit(c)
    \/ \E c \in 1..RaceCalls : TriggerCount(c)
    \/ \E c \in 1..RaceCalls : TriggerFlush(c, RaceRows)
    \/ \E c \in 1..RaceCalls : TriggerCommit(c)
    \/ \E s \in Ids : WarmFetch(s)
    \/ \E s \in Ids : WarmCommit(s)
    \/ \E k \in 1..RaceCalls, u \in PairUsers, t \in PairTemplates :
          Lowest(claim, k) /\ ClaimSelect(k, u, t)
    \/ \E k \in 1..RaceCalls : ClaimFlush(k)

SpecRace == Init /\ [][NextRace]_vars

\* SpecCap: concurrent triggers of one user, call place c for the c-th
\* template.
TemplateSeq == <<"ollama", "jupyter", "dev-terminal", "ubuntu-desktop", "minecraft", "valheim">>

NextCap ==
    \/ \E c \in 1..CapCalls, u \in PairUsers : TriggerSelect(c, u, TemplateSeq[c])
    \/ \E c \in 1..CapCalls : TriggerExtendCommit(c)
    \/ \E c \in 1..CapCalls : TriggerCount(c)
    \/ \E c \in 1..CapCalls : TriggerFlush(c, CapCalls)
    \/ \E c \in 1..CapCalls : TriggerCommit(c)

SpecCap == Init /\ [][NextCap]_vars

\* SpecSeq: the triggers of a user run to completion one after the other,
\* interleaved with the warm tasks and cancels.
SeqTemplates == {"ollama", "jupyter", "dev-terminal"}

NextSeq ==
    \/ \E c \in SeqCalls, u \in PairUsers, t \in SeqTemplates : TriggerSelect(c, u, t)
    \/ \E c \in SeqCalls : TriggerExtendCommit(c)
    \/ \E c \in SeqCalls : TriggerCount(c)
    \/ \E c \in SeqCalls : TriggerFlush(c, SeqRows)
    \/ \E c \in SeqCalls : TriggerCommit(c)
    \/ \E s \in Ids : WarmFetch(s)
    \/ \E s \in Ids : WarmCommit(s)
    \/ \E u \in PairUsers, s \in Ids : CancelSelect(u, s)
    \/ CancelCommit /\ UNCHANGED hist

SpecSeq == Init /\ [][NextSeq]_vars

\* SpecTrig: the triggers of a user one after the other, with the warm tasks
\* of the slots they create and nothing else.
NextTrig ==
    \/ \E c \in SeqCalls, u \in PairUsers, t \in SeqTemplates : TriggerSelect(c, u, t)
    \/ \E c \in SeqCalls : TriggerExtendCommit(c)
    \/ \E c \in SeqCalls : TriggerCount(c)
    \/ \E c \in SeqCalls : TriggerFlush(c, SeqRows)
    \/ \E c \in SeqCalls : TriggerCommit(c)
    \/ \E s \in Ids : WarmFetch(s)
    \/ \E s \in Ids : WarmCommit(s)

SpecTrig == Init /\ [][NextTrig]_vars

\* No request, no sweep pass and no warm task is between two of its
\* statements.
Quiet ==
    /\ \A c \in TrigPool : trig[c].pc = "idle"
    /\ \A k \in ClaimPool : claim[k].pc = "idle"
    /\ cancel.pc = "idle"
    /\ mgr.task # "commit"
    /\ \A s \in Ids : warm[s].pc = "done"

\* One user asking for one template after another, and every way a slot
\* leaves {preparing, ready}: claim, cancel, sweep expiry and provisioning
\* failure.  The
\* requests, the sweep passes and the clock's steps come one after another
\* (each starts when the others and the warm tasks have finished); the warm
\* task of a new slot runs alongside the request that created it.
NextFree ==
    \/ Quiet /\ Tick
    \/ Quiet /\ \E c \in SeqCalls, u \in PairUsers :
                    TriggerSelect(c, u, TemplateSeq[Len(slots) + 1])
    \/ \E c \in SeqCalls : TriggerCount(c)
    \/ \E c \in SeqCalls : TriggerFlush(c, SeqRows)
    \/ \E c \in SeqCalls : TriggerCommit(c)
    \/ \E s \in Ids : WarmFetch(s)
    \/ \E s \in Ids : WarmCommit(s)
    \/ \E s \in Ids : WarmFail(s)
    \/ \E s \in Ids : WarmFailFetch(s)
    \/ \E s \in Ids : WarmFailCommit(s)
    \/ Start
    \/ Quiet /\ SweepQuery
    \/ SweepCommit
    \/ Quiet /\ \E k \in SeqCalls, u \in PairUsers, t \in SeqTemplates : ClaimSelect(k, u, t)
    \/ \E k \in SeqCalls : ClaimFlush(k)
    \/ Quiet /\ \E u \in PairUsers, s \in Ids : CancelSelect(u, s)
    \/ CancelCommit /\ UNCHANGED hist

SpecFree == Init /\ [][NextFree]_vars

\* The template of a user's next request: the first one again, or the next
\* one the user has no slot for yet.
RequestTemplates(u) ==
    {TemplateSeq[1], TemplateSeq[Cardinality({s \in Ids : slots[s].user_id = u}) + 1]}

\* Two users on the four routes, their requests one after another, the
\* warm tasks in between.
NextIso ==
    \/ Quiet /\ \E c \in SeqCalls, u \in Users :
                    \E t \in RequestTemplates(u) : TriggerSelect(c, u, t)
    \/ \E c \in SeqCalls : TriggerExtendCommit(c)
    \/ \E c \in SeqCalls : TriggerCount(c)
    \/ \E c \in SeqCalls : TriggerFlush(c, SeqRows)
    \/ \E c \in SeqCalls : TriggerCommit(c)
    \/ \E s \in Ids : WarmFetch(s)
    \/ \E s \in Ids : WarmCommit(s)
    \/ Quiet /\ \E k \in SeqCalls, u \in Users :
                    \E t \in RequestTemplates(u) : ClaimSelect(k, u, t)
    \/ \E k \in SeqCalls : ClaimFlush(k)
    \/ Quiet /\ \E u \in Users, s \in Ids : CancelSelect(u, s)
    \/ CancelCommit /\ UNCHANGED hist
    \/ Quiet /\ \E u \in Users : GetUserWarmSlots(u)

SpecIso == Init /\ [][NextIso]_vars

\* SpecTrigLive: SpecTrig with the event loop running every call and every
\* warm task that can take a step; no slot expires, is cancelled or fails.
\* New calls (TriggerSelect) are up to the users and are not forced.
TrigLiveFairness ==
    /\ \A c \in SeqCalls :
          /\ WF_vars(TriggerExtendCommit(c))
          /\ WF_vars(TriggerCount(c))
          /\ WF_vars(TriggerFlush(c, SeqRows))
          /\ WF_vars(TriggerCommit(c))
    /\ WF_vars(\E s \in Ids : WarmFetch(s))
    /\ WF_vars(\E s \in Ids : WarmCommit(s))

SpecTrigLive == Init /\ [][NextTrig]_vars /\ TrigLiveFairness

\* ---------------------------------------------------------------- claims
SamePair(r, s) ==
    slots[r].user_id = slots[s].user_id /\ slots[r].template_id = slots[s].template_id

\* C1 (SpecWarm, where only the sweep expires a slot): once the sweep has
\* committed expired for a slot, no step writes ready over the expired row.
C1_NoReadyOverExpired ==
    [][\A s \in Ids : slots[s].status = EXPIRED => slots'[s].status # READY]_vars

\* C2 (SpecRace): a slot that is the only row of its (user, template) pair
\* is returned by at most one claim_warm_slot call; the other gets None.
C2_ClaimExclusive ==
    \A s \in Ids :
        (\A r \in Ids : SamePair(r, s) => r = s) => hist[s].claim_returns <= 1

\* C3 (Spec): _release_warm_slot_resources is never called, before or after
\* the claim, for a slot that a claim call returned.
C3_ClaimedNeverReleased ==
    \A s \in Ids : hist[s].claim_returns > 0 => hist[s].released = 0

\* C4 (Spec): terminality: once a slot's status is claimed or expired, no
\* step changes its status, host or port.
C4_Terminal ==
    [][\A s \in Ids :
          slots[s].status \in {CLAIMED, EXPIRED} =>
              /\ slots'[s].status = slots[s].status
              /\ slots'[s].host = slots[s].host
              /\ slots'[s].port = slots[s].port]_vars

\* C5 (SpecSeq, the triggers of a user one after the other): every user has
\* at most MAX_WARM_SLOTS_PER_USER slots in {preparing, ready}.
C5_Cap ==
    \A u \in Users : Cardinality(ActiveForUser(u)) <= MAX_WARM_SLOTS_PER_USER

\* C6 (SpecCap, concurrent triggers of one user for distinct templates): the
\* user's slots in {preparing, ready} exceed the cap by at most one.
C6_CapPlusOne ==
    \A u \in Users : Cardinality(ActiveForUser(u)) <= MAX_WARM_SLOTS_PER_USER + 1

\* C7 (SpecRace): at most one slot in {preparing, ready} for each
\* (user, template) pair.
C7_OneActivePerPair ==
    \A u \in Users, t \in PairTemplates : Cardinality(ActiveForPair(u, t)) <= 1

\* C8 as claimed (Spec): host and port are non-null if and only if the
\* slot's status is ready or claimed.
C8_HostPortIffReadyOrClaimed ==
    \A s \in Ids :
        (slots[s].host # NULL /\ slots[s].port # NULL)
            <=> slots[s].status \in {READY, CLAIMED}

\* C8 as amended (Spec): host and port are set together with ready_at by the
\* warm task and never cleared: they are non-null exactly when ready_at is,
\* hence non-null in ready and claimed, null in preparing, and kept by a slot
\* that went ready and then expired.
C8_HostPortIffMadeReady ==
    \A s \in Ids :
        /\ slots[s].host # NULL <=> slots[s].ready_at # NULL
        /\ slots[s].port # NULL <=> slots[s].ready_at # NULL
        /\ slots[s].status \in {READY, CLAIMED} => slots[s].host # NULL
        /\ slots[s].status = PREPARING => slots[s].host = NULL

C8_Witness ==
    \E s \in Ids :
        /\ slots[s].status = EXPIRED
        /\ slots[s].host # NULL
        /\ slots[s].port = Some(WarmPort)

\* C9 (SpecRace): no step makes a slot's stored expires_at decrease.
C9_ExpiresMonotonic ==
    [][\A s \in Ids : slots'[s].expires_at >= slots[s].expires_at]_vars

\* C10 (Spec): claim_warm_slot selects a slot only if at its query the slot
\* is the user's, for the template, ready, with expires_at > now, and not
\* returned by an earlier claim; its flush sets status claimed and claimed_at
\* and returns that slot; a call that returns None found no such slot and
\* changes no slot.
C10_ClaimContract ==
    [][/\ \A k \in ClaimPool :
             (claim[k].pc = "idle" /\ claim'[k].pc = "flush") =>
                 LET s == claim'[k].slot IN
                 /\ s \in Visible
                 /\ slots[s].user_id = claim'[k].user_id
                 /\ slots[s].template_id = claim'[k].template_id
                 /\ slots[s].status = READY
                 /\ slots[s].expires_at > clock
                 /\ slots[s].claimed_at = NULL
                 /\ hist[s].claim_returns = 0
                 /\ slots' = slots
       /\ \A k \in ClaimPool :
             (claim[k].pc = "flush" /\ claim'[k].pc = "idle") =>
                 LET s == claim[k].slot IN
                 /\ ret' = [op |-> "claim", user_id |-> claim[k].user_id,
                            template_id |-> claim[k].template_id, slot |-> Some(s)]
                 /\ slots'[s].status = CLAIMED
                 /\ slots'[s].claimed_at # NULL
                 /\ \A r \in Ids \ {s} : slots'[r] = slots[r]
       /\ (ret'.op = "claim" /\ ret'.slot = NULL) =>
             /\ slots' = slots
             /\ \A s \in Visible :
                   ~ /\ slots[s].user_id = ret'.user_id
                     /\ slots[s].template_id = ret'.template_id
                     /\ slots[s].status = READY
                     /\ slots[s].expires_at > clock
      ]_vars

C10_Witness ==
    \E s \in Ids :
        /\ hist[s].claim_returns = 1
        /\ slots[s].status = CLAIMED
        /\ slots[s].claimed_at # NULL
        /\ ret = [op |-> "claim", user_id |-> slots[s].user_id,
                  template_id |-> slots[s].template_id, slot |-> NULL]

\* C11 (SpecWarm): a warm task that at its re-fetch finds its slot already
\* marked expired calls _release_warm_slot_resources for it exactly once
\* before it ends.
C11_ExpiredWarmReleases ==
    [][\A s \in Ids :
          (/\ warm[s].pc = "provisioning"
           /\ warm'[s].pc = "done"
           /\ s \in Visible
           /\ slots[s].status = EXPIRED) =>
              hist'[s].released = hist[s].released + 1]_vars

\* C12 (SpecTrig, the triggers of a user one after the other): a trigger
\* whose count finds MAX_WARM_SLOTS_PER_USER or more active slots of the user
\* returns the error result with max_slots, and the step creates no row,
\* schedules no warm task and changes no slot; a trigger that finds fewer goes
\* on to create; and the user never has more than MAX_WARM_SLOTS_PER_USER
\* active rows, so the third of three triggers for distinct templates finds
\* two and is refused.
C12_CapRejects ==
    /\ [](\A u \in Users :
             Cardinality({s \in Ids : /\ slots[s].user_id = u
                                      /\ slots[s].status \in ActiveStatuses})
                 <= MAX_WARM_SLOTS_PER_USER)
    /\ [][/\ \A c \in TrigPool :
               (trig[c].pc = "count" /\ trig'[c].pc # "count") =>
                   IF Cardinality(ActiveForUser(trig[c].user_id)) >= MAX_WARM_SLOTS_PER_USER
                   THEN /\ ret' = [op |-> "trigger", error |-> "Max warm slots reached",
                                   max_slots |-> MAX_WARM_SLOTS_PER_USER]
                        /\ trig'[c] = IdleTrig
                        /\ slots' = slots
                        /\ warm' = warm
                        /\ hist' = hist
                   ELSE /\ trig'[c].pc = "insert"
                        /\ ret' = NoRet
          /\ (ret'.op = "trigger" /\ "error" \in DOMAIN ret') =>
                /\ slots' = slots
                /\ warm' = warm
                /\ \E c \in TrigPool :
                      /\ trig[c].pc = "count"
                      /\ ActiveForPair(trig[c].user_id, trig[c].template_id) = {}
                      /\ Cardinality(ActiveForUser(trig[c].user_id)) >= MAX_WARM_SLOTS_PER_USER
         ]_vars

C12_Witness ==
    /\ ret = [op |-> "trigger", error |-> "Max warm slots reached",
              max_slots |-> MAX_WARM_SLOTS_PER_USER]
    /\ Len(slots) = MAX_WARM_SLOTS_PER_USER
    /\ \A s \in Ids : slots[s].committed /\ slots[s].status \in ActiveStatuses
    /\ \A r, s \in Ids : r # s => slots[r].template_id # slots[s].template_id

\* C13 (SpecWarm): a warm task exists only for a slot whose insert has been
\* committed, and its re-fetch by id finds the row.
C13_CommittedBeforeScheduled ==
    /\ [](\A s \in Ids : warm[s].pc # "none" => slots[s].committed)
    /\ [][\A s \in Ids :
              (warm[s].pc = "provisioning" /\ warm'[s].pc # "provisioning") =>
                  s \in Visible]_vars

\* C14 (SpecWarm): a step that moves a slot from preparing to ready is taken
\* at a time not after the slot's expires_at.
C14_ReadyBeforeExpiry ==
    [][\A s \in Ids :
          (slots[s].status = PREPARING /\ slots'[s].status = READY) =>
              clock <= slots[s].expires_at]_vars

\* C15 (Spec): a sweep pass selects exactly the visible slots with status in
\* {preparing, ready} and expires_at < now, calls _release_warm_slot_resources
\* once for each of them and for no other slot (going on to the provider only
\* when provider_instance_id is set), and its commit sets the status of
\* exactly the selected slots to expired, changing no other column and no
\* other slot.
C15_SweepExact ==
    [][/\ (mgr.task = "sleep" /\ mgr'.task = "commit") =>
             /\ mgr'.expired_slots =
                    {s \in Ids : /\ slots[s].committed
                                 /\ slots[s].status \in {PREPARING, READY}
                                 /\ slots[s].expires_at < clock}
             /\ slots' = slots
       /\ \A s \in Ids :
             LET called == mgr.task = "sleep" /\ s \in mgr'.expired_slots IN
             /\ hist'[s].released = hist[s].released + (IF called THEN 1 ELSE 0)
             /\ hist'[s].provider_calls = hist[s].provider_calls +
                    (IF called /\ slots[s].provider_instance_id # NULL THEN 1 ELSE 0)
       /\ (mgr.task = "commit" /\ mgr'.task = "sleep") =>
             \A s \in Ids :
                 IF s \in mgr.expired_slots
                 THEN /\ slots'[s] = [slots[s] EXCEPT !.status = EXPIRED]
                      /\ hist[s].released >= 1
                 ELSE slots'[s] = slots[s]
      ]_vars

C15_Witness ==
    /\ mgr.task = "sleep"
    /\ \E s \in Ids :
          /\ slots[s].status = EXPIRED
          /\ slots[s].expires_at < clock
          /\ hist[s].released = 1
          /\ hist[s].provider_calls = 0
          /\ warm[s].pc = "provisioning"

\* C17 (SpecStop): a stop() that arrives while a pass is between its query
\* and its commit lets the pass finish: the slots the pass selected are
\* expired when the loop task has ended.
C17_StopLetsPassFinish ==
    [][(mgr.task = "commit" /\ mgr'.task = "cancelled") =>
          \A s \in mgr.expired_slots : slots'[s].status = EXPIRED]_vars

\* C18 (SpecCancel): a cancel_warm_slot call by a user who does not own the
\* slot raises the not-found error and changes nothing; only a call by the
\* owner goes on to the commit, and that commit writes the owner's slot alone.
C18_NonOwnerRejected ==
    [][/\ (/\ ret'.op \in {"cancel", "cancel_raised"}
           /\ slots[ret'.slot_id].user_id # ret'.user_id) =>
             /\ ret' = [op |-> "cancel_raised", user_id |-> ret'.user_id,
                        slot_id |-> ret'.slot_id, raised |-> "Warm slot not found"]
             /\ slots' = slots
             /\ warm' = warm
             /\ hist' = hist
             /\ cancel' = cancel
       /\ (cancel.pc = "idle" /\ cancel'.pc = "commit") =>
             /\ slots[cancel'.slot].user_id = cancel'.user_id
             /\ slots' = slots
       /\ (cancel.pc = "commit" /\ cancel'.pc = "idle") =>
             /\ slots[cancel.slot].user_id = cancel.user_id
             /\ \A r \in Ids \ {cancel.slot} : slots'[r] = slots[r]
      ]_vars

C18_Witness ==
    \E s \in Visible :
        /\ slots[s].user_id = "alice"
        /\ slots[s].status \in ActiveStatuses
        /\ ret = [op |-> "cancel_raised", user_id |-> "bob", slot_id |-> s,
                  raised |-> "Warm slot not found"]

\* C19, the two cases of the status (SpecCancel): the owner's cancel of a
\* slot it reads as claimed or expired returns success false and changes
\* nothing; of a slot it reads as preparing or ready, it sets the status to
\* expired and returns success true.
C19_Cases ==
    [][/\ (ret'.op = "cancel" /\ ~ret'.success) =>
             /\ slots[ret'.slot_id].status \in {CLAIMED, EXPIRED}
             /\ slots' = slots
       /\ (/\ cancel.pc = "idle"
           /\ ret'.op \in {"cancel", "cancel_raised"}
           /\ ret'.slot_id \in Visible
           /\ slots[ret'.slot_id].user_id = ret'.user_id) =>
             /\ slots[ret'.slot_id].status \in {CLAIMED, EXPIRED}
             /\ ret'.op = "cancel"
       /\ (cancel.pc = "idle" /\ cancel'.pc = "commit") =>
             slots[cancel'.slot].status \in {PREPARING, READY}
       /\ (cancel.pc = "commit" /\ cancel'.pc = "idle") =>
             /\ slots'[cancel.slot].status = EXPIRED
             /\ ret' = [op |-> "cancel", user_id |-> cancel.user_id,
                        slot_id |-> cancel.slot, success |-> TRUE]
      ]_vars

\* C19 (SpecCancel): the two cases above, and of the cancel calls made on
\* one slot at most one succeeds.
C19_CancelOnce ==
    /\ C19_Cases
    /\ [](\A s \in Ids : hist[s].cancels <= 1)

\* C20 (Spec): a warm task that failed ends with its slot expired, starts no
\* second provisioning, and the trigger call that created the slot returns
\* the preparing result whatever became of the task.
C20_FailExpires ==
    [][/\ \A s \in Ids :
             /\ (warm[s].pc \in {"failed", "fail_commit"} /\ warm'[s].pc = "done") =>
                    slots'[s].status = EXPIRED
             /\ warm[s].pc = "failed" => warm'[s].pc \in {"failed", "fail_commit", "done"}
             /\ warm[s].pc = "fail_commit" => warm'[s].pc \in {"fail_commit", "done"}
             /\ warm[s].pc = "done" => warm'[s].pc = "done"
       /\ \A c \in TrigPool :
             (trig[c].pc = "commit" /\ trig'[c].pc = "idle") =>
                 ret' = [op |-> "trigger", status |-> PREPARING, slot_id |-> trig[c].slot,
                         expires_at |-> trig[c].expires_at]
      ]_vars

\* C20 for the slots whose insert is committed when the failed task looks
\* for them (Spec).
C20_FailExpiresCommitted ==
    [][\A s \in Ids :
          (warm[s].pc \in {"failed", "fail_commit"} /\ warm'[s].pc = "done"
              /\ slots[s].committed) =>
                 slots'[s].status = EXPIRED]_vars

\* C21 (SpecGet): get_user_warm_slots changes no slot and returns exactly the
\* user's visible slots with status preparing or ready, each with
\* seconds_remaining = max(0, expires_at - now), so never a negative value.
C21_GetReadOnly ==
    [][ret'.op = "get" =>
          /\ slots' = slots
          /\ warm' = warm
          /\ hist' = hist
          /\ {e.slot_id : e \in ret'.slots} =
                 {s \in Ids : /\ slots[s].committed
                              /\ slots[s].user_id = ret'.user_id
                              /\ slots[s].status \in {PREPARING, READY}}
          /\ \A e \in ret'.slots :
                /\ e.status = slots[e.slot_id].status
                /\ e.seconds_remaining >= 0
                /\ e.seconds_remaining >= slots[e.slot_id].expires_at - clock
                /\ e.seconds_remaining \in {0, slots[e.slot_id].expires_at - clock}
      ]_vars

C21_Witness ==
    /\ ret.op = "get"
    /\ \E e \in ret.slots :
          /\ slots[e.slot_id].expires_at < clock
          /\ e.seconds_remaining = 0

\* C22 (SpecTrigLive: provisioning always succeeds and nothing expires or
\* cancels a slot): the trigger that creates a slot returns status preparing
\* with expires_at = now + TTL and no host or port, and every created slot
\* eventually has status ready with ready_at, host and port set.
C22_EventuallyReady ==
    /\ [][\A c \in TrigPool :
              /\ (trig[c].pc = "count" /\ trig'[c].pc = "insert") =>
                     trig'[c].expires_at = clock + WARM_SLOT_TTL_SECONDS
              /\ (trig[c].pc = "commit" /\ trig'[c].pc = "idle") =>
                     /\ ret' = [op |-> "trigger", status |-> PREPARING,
                                slot_id |-> trig[c].slot,
                                expires_at |-> trig[c].expires_at]
                     /\ slots'[trig[c].slot].expires_at = trig[c].expires_at
           ]_vars
    /\ \A s \in 1..SeqRows :
          (IF s \in Ids THEN slots[s].status = PREPARING ELSE FALSE) ~>
              (IF s \in Ids
               THEN /\ slots[s].status = READY
                    /\ slots[s].ready_at # NULL
                    /\ slots[s].host # NULL
                    /\ slots[s].port # NULL
               ELSE FALSE)

\* C22 for the warm tasks that start on a committed row (SpecTrigLive).
C22_ReadyOnceCommitted ==
    \A s \in 1..SeqRows :
        (IF s \in Ids THEN slots[s].committed /\ warm[s].pc = "provisioning" ELSE FALSE) ~>
            (IF s \in Ids
             THEN slots[s].status = READY /\ slots[s].host # NULL /\ slots[s].port # NULL
             ELSE FALSE)

\* C23 (SpecRace): no call of trigger_warming or claim_warm_slot raises; each
\* returns a result value.
C23_NoRaise ==
    [][ret'.op \notin {"trigger_raised", "claim_raised"}]_vars

C26_Forward ==
    [][/\ \A s \in DOMAIN slots' \ Ids : slots'[s].status = PREPARING
       /\ \A s \in Ids :
             /\ slots[s].status # PREPARING => slots'[s].status # PREPARING
             /\ (slots[s].status # CLAIMED /\ slots'[s].status = CLAIMED) =>
                    /\ slots[s].status # PREPARING
                    /\ slots[s].ready_at # NULL
      ]_vars

C26_Witness ==
    \E s \in Ids :
        /\ slots[s].status = CLAIMED
        /\ slots[s].ready_at # NULL
        /\ warm[s].pc = "done"

C30_ExtensionHonoured ==
    [][(mgr.task = "commit" /\ mgr'.task = "sleep") =>
          \A s \in Ids :
              (slots[s].status # EXPIRED /\ slots'[s].status = EXPIRED) =>
                  slots[s].expires_at < clock]_vars

\* C25 (SpecLive): after cancel_warm_slot has returned success for a slot,
\* _release_warm_slot_resources is eventually called for that slot.
C25_CancelledReleased ==
    \A s \in 1..MaxRows :
        (ret = [op |-> "cancel", user_id |-> "alice", slot_id |-> s, success |-> TRUE]) ~>
            (IF s \in Ids THEN hist[s].released >= 1 ELSE FALSE)

\* C28 (SpecSweepLive): a slot with status preparing or ready whose expires_at
\* has passed eventually has status expired or claimed, unless a trigger
\* extends it past the clock again.
C28_OverdueExpires ==
    \A s \in 1..MaxRows :
        (IF s \in Ids
         THEN slots[s].status \in {PREPARING, READY} /\ slots[s].expires_at < clock
         ELSE FALSE) ~>
        (IF s \in Ids
         THEN slots[s].status \in {EXPIRED, CLAIMED} \/ slots[s].expires_at >= clock
         ELSE FALSE)

C28_Witness ==
    \E s \in Ids :
        /\ slots[s].status = EXPIRED
        /\ slots[s].expires_at < clock
        /\ hist[s].released >= 1
        /\ mgr.active
        /\ mgr.task = "sleep"

\* C29 (SpecFail): a pass that fails changes no slot, and the loop survives
\* it: while the manager is active the loop task has not ended, and after a
\* caught failure it is back at its sleep, from which the next pass starts.
C29_LoopSurvives ==
    /\ [][(mgr.task # "caught" /\ mgr'.task = "caught") => slots' = slots]_vars
    /\ [](mgr.active => mgr.task \in {"sleep", "commit", "caught"})
    /\ (mgr.task = "caught") ~> (mgr.active /\ mgr.task = "sleep")

C29_Witness ==
    /\ mgr.task = "caught"
    /\ \E s \in Ids :
          /\ slots[s].status \in {PREPARING, READY}
          /\ slots[s].expires_at < clock
          /\ hist[s].released >= 1

\* C31 (SpecCancel): a slot that cancel_warm_slot has set expired while it
\* was preparing stays expired with no host and port: the warm task in
\* flight does not make it ready.
C31_CancelledStaysExpired ==
    [][\A s \in Ids :
          (/\ hist[s].cancels >= 1
           /\ slots[s].status = EXPIRED
           /\ slots[s].ready_at = NULL) =>
              /\ slots'[s].status = EXPIRED
              /\ slots'[s].host = NULL
              /\ slots'[s].port = NULL]_vars

C33_Boundary ==
    /\ [](\A s \in Visible :
             LET swept == s \in ExpiredAt(clock)
                 claimable == s \in Claimable(slots[s].user_id, slots[s].template_id, clock)
             IN  /\ ~(swept /\ claimable)
                 /\ (slots[s].status = READY /\ slots[s].expires_at = clock) =>
                        (~swept /\ ~claimable))
    /\ [][/\ \A k \in ClaimPool :
               (claim[k].pc = "idle" /\ claim'[k].pc = "flush") =>
                   slots[claim'[k].slot].expires_at > clock
          /\ (mgr.task = "sleep" /\ mgr'.task = "commit") =>
                \A s \in mgr'.expired_slots : slots[s].expires_at < clock
         ]_vars

C33_Witness ==
    \E s \in Visible :
        /\ slots[s].status = READY
        /\ slots[s].expires_at = clock
        /\ hist[s].released = 0
        /\ mgr.active
        /\ mgr.task = "sleep"
        /\ ret = [op |-> "claim", user_id |-> slots[s].user_id,
                  template_id |-> slots[s].template_id, slot |-> NULL]

\* C35 (Spec): provider_instance_id is null for every slot in every
\* reachable state, and no call of _release_warm_slot_resources has gone on
\* to a provider.
C35_NoProviderInstance ==
    \A s \in Ids :
        /\ slots[s].provider_instance_id = NULL
        /\ hist[s].provider_calls = 0

C35_Witness ==
    \E s \in Ids :
        /\ hist[s].released >= 1
        /\ hist[s].provider_calls = 0
        /\ slots[s].provider_instance_id = NULL
        /\ slots[s].status = CLAIMED

\* C34 (SpecFree): the cap counts the user's committed preparing and ready
\* slots only: a trigger that reaches the count goes on to create a slot
\* when fewer than MAX_WARM_SLOTS_PER_USER of them are left, whatever the
\* number of claimed and expired ones, returns the max-slots error
\* otherwise, and the created slot is returned as preparing.
C34_FreedCap ==
    [][\A c \in TrigPool :
          /\ (trig[c].pc = "count" /\ trig'[c].pc # "count") =>
                 LET live == {s \in Ids : /\ slots[s].committed
                                          /\ slots[s].user_id = trig[c].user_id
                                          /\ slots[s].status \in {PREPARING, READY}}
                 IN  IF Cardinality(live) < MAX_WARM_SLOTS_PER_USER
                     THEN /\ trig'[c].pc = "insert"
                          /\ ret' = NoRet
                     ELSE /\ trig'[c].pc = "idle"
                          /\ ret' = [op |-> "trigger", error |-> "Max warm slots reached",
                                     max_slots |-> MAX_WARM_SLOTS_PER_USER]
          /\ (trig[c].pc = "insert" /\ trig'[c].pc = "commit") =>
                 /\ Len(slots') = Len(slots) + 1
                 /\ slots'[Len(slots')].status = PREPARING
                 /\ slots'[Len(slots')].user_id = trig[c].user_id
                 /\ slots'[Len(slots')].template_id = trig[c].template_id
          /\ (trig[c].pc = "commit" /\ trig'[c].pc = "idle") =>
                 /\ ret' = [op |-> "trigger", status |-> PREPARING,
                            slot_id |-> trig[c].slot, expires_at |-> trig[c].expires_at]
                 /\ slots'[trig[c].slot].status = PREPARING
                 /\ slots'[trig[c].slot].committed
      ]_vars

C34_Witness ==
    /\ Len(slots) = 3
    /\ \A s \in Ids : slots[s].user_id = "alice"
    /\ ret = [op |-> "trigger", status |-> PREPARING, slot_id |-> 3,
              expires_at |-> slots[3].expires_at]
    /\ slots[3].status = PREPARING
    /\ slots[3].committed
    /\ \E a, b \in {1, 2} :
          /\ a # b
          /\ slots[a].status \in {CLAIMED, EXPIRED}
          /\ slots[b].status \in {PREPARING, READY}
          /\ slots[a].template_id # slots[3].template_id
          /\ slots[b].template_id # slots[3].template_id

\* C36 (SpecStart): whatever the order of start() and stop() calls, at most
\* one sweep loop is running in every state, and while the manager is
\* stopped (after stop() has returned and before the next start()) no loop
\* takes a step of a pass.
C36_OneLoop ==
    /\ [](LET running == {i \in DOMAIN mgr.orphans :
                             mgr.orphans[i].task \in {"sleep", "commit"}}
          IN  Cardinality(running) +
              (IF mgr.task \in {"sleep", "commit", "caught"} THEN 1 ELSE 0) <= 1)
    /\ [][(~mgr.active /\ mgr.task = "cancelled") =>
              /\ \A s \in Ids : hist'[s].released = hist[s].released
              /\ \A s \in Ids : slots'[s].status = EXPIRED => slots[s].status = EXPIRED
              /\ \A i \in DOMAIN mgr.orphans :
                     mgr'.orphans[i].task \in {mgr.orphans[i].task, "done"}
         ]_vars

\* C36, the second part alone: a loop that a second start() left behind
\* still commits a pass after stop() has returned.
C36_StoppedIsQuiet ==
    [][(~mgr.active /\ mgr.task = "cancelled") =>
          \A i \in DOMAIN mgr.orphans :
              mgr'.orphans[i].task \in {mgr.orphans[i].task, "done"}]_vars

\* C37 (SpecIso): a step of trigger_warming, claim_warm_slot,
\* get_user_warm_slots or cancel_warm_slot made for one user leaves every
\* row of another user as it was, selects, returns, extends, claims and
\* cancels only rows of that user, and the trigger's cap decision depends
\* on that user's own committed preparing and ready rows alone.
C37_Isolation ==
    [][/\ \A c \in TrigPool :
            trig'[c] # trig[c] =>
               LET u == IF trig[c].pc = "idle" THEN trig'[c].user_id ELSE trig[c].user_id
                   own == {s \in Ids : /\ slots[s].committed
                                        /\ slots[s].user_id = u
                                        /\ slots[s].status \in {PREPARING, READY}}
               IN  /\ \A s \in Ids : slots[s].user_id # u => slots'[s] = slots[s]
                   /\ Len(slots') > Len(slots) => slots'[Len(slots')].user_id = u
                   /\ trig'[c].slot # 0 => slots'[trig'[c].slot].user_id = u
                   /\ trig[c].pc = "count" =>
                          IF Cardinality(own) < MAX_WARM_SLOTS_PER_USER
                          THEN trig'[c].pc = "insert"
                          ELSE ret' = [op |-> "trigger", error |-> "Max warm slots reached",
                                       max_slots |-> MAX_WARM_SLOTS_PER_USER]
                   /\ trig[c].pc \in {"extend", "commit"} =>
                          /\ ret'.slot_id = trig[c].slot
                          /\ slots[trig[c].slot].user_id = u
       /\ \A k \in ClaimPool :
            claim'[k] # claim[k] =>
               LET u == IF claim[k].pc = "idle" THEN claim'[k].user_id ELSE claim[k].user_id
               IN  /\ \A s \in Ids : slots[s].user_id # u => slots'[s] = slots[s]
                   /\ claim'[k].slot # 0 => slots[claim'[k].slot].user_id = u
                   /\ claim[k].pc = "flush" =>
                          /\ ret'.slot = Some(claim[k].slot)
                          /\ slots[claim[k].slot].user_id = u
                          /\ ret'.user_id = u
       /\ cancel' # cancel =>
               LET u == IF cancel.pc = "idle" THEN cancel'.user_id ELSE cancel.user_id
               IN  /\ \A s \in Ids : slots[s].user_id # u => slots'[s] = slots[s]
                   /\ cancel'.slot # 0 => slots[cancel'.slot].user_id = u
                   /\ cancel.pc = "commit" =>
                          /\ ret'.slot_id = cancel.slot
                          /\ slots[cancel.slot].user_id = u
       /\ (ret'.op = "cancel" /\ ret'.slot_id \in Ids) =>
               slots[ret'.slot_id].user_id = ret'.user_id
       /\ ret'.op = "get" =>
               /\ slots' = slots
               /\ \A r \in ret'.slots : slots[r.slot_id].user_id = ret'.user_id
      ]_vars

C37_Witness ==
    /\ Len(slots) = 3
    /\ \A s \in {1, 2} : /\ slots[s].user_id = "bob"
                          /\ slots[s].committed
                          /\ slots[s].status \in {PREPARING, READY}
    /\ slots[3].user_id = "alice"
    /\ slots[3].committed
    /\ ret = [op |-> "trigger", status |-> PREPARING, slot_id |-> 3,
              expires_at |-> slots[3].expires_at]

====
